---- MODULE Spec2Model ----
(***************************************************************************)
(* A model of the analysis scripts of segmentation_analysis:               *)
(*   - the DICE overlap scorer dice_score and its three drivers            *)
(*     (chat_dice.py, new_dice_score.py, dice_score_folder.py);            *)
(*   - the displacement extractors process_structure_csv                   *)
(*     (displacement_plotter_realdata.py), compute_displacement            *)
(*     (batch_displacement_processor.py), their folder loops, and the      *)
(*     ordering part of tumour_displacement.py.                            *)
(* Every script is sequential; one run of one script is one behaviour.     *)
(* The variable script says which script runs.  The files a loop reads are *)
(* chosen when the loop reaches them (fs, df hold the current item).       *)
(***************************************************************************)
EXTENDS Integers, Sequences, FiniteSets, TLC

VARIABLES
    script,           \* which script / entry point this run executes
    pc,               \* "run" while the loop runs, "done", or "raised"
    i,                \* number of loop items already handled
    tumor_list,       \* the structures a DICE driver iterates over
    fs,               \* the files of the current item: path -> content
    seg1, seg2,       \* the two masks of the current scoring call
    path_seg1,        \* what the lookup of the first segmentation file returned
    path_seg2,        \* what the lookup of the second segmentation file returned
    dice,             \* what the last dice_score / compare_tumors call returned
    series1_data,     \* names of the CSV rows of series 1 (new_dice_score.py)
    series2_data,     \* names of the CSV rows of series 2 (new_dice_score.py)
    volume_df,        \* the volume reference table of dice_score_folder.py
    results,          \* the driver's results list (or dict, or printed log)
    err,              \* the exception that escaped the script, if pc = "raised"
    csv_files,        \* number of CSV tables a displacement folder loop reads
    df,               \* the table of the current displacement call
    reference_phase,  \* the reference key of the displacement calls
    tumour_name,      \* the structure name of the displacement calls
    df_disp           \* what the last displacement call returned

vars == <<script, pc, i, tumor_list, fs, seg1, seg2, path_seg1, path_seg2, dice,
          series1_data, series2_data, volume_df, results, err, csv_files, df,
          reference_phase, tumour_name, df_disp>>

diceVars == <<tumor_list, fs, seg1, seg2, path_seg1, path_seg2, dice, series1_data, series2_data,
              volume_df>>
dispVars == <<csv_files, df, reference_phase, tumour_name, df_disp>>

None == [kind |-> "None"]

----------------------------------------------------------------------------
(* Bounds of the model.                                                     *)

MaxVoxels == 3     \* a volume of SpecScore has at most MaxVoxels voxels
MaxRank == 2       \* a volume has 1..MaxRank axes

----------------------------------------------------------------------------
(* numpy arrays: a shape and the data in row-major order.                   *)

RECURSIVE Prod(_)
Prod(s) == IF s = <<>> THEN 1 ELSE Head(s) * Prod(Tail(s))

RECURSIVE SumSeq(_)
SumSeq(s) == IF s = <<>> THEN 0 ELSE Head(s) + SumSeq(Tail(s))

Max(a, b) == IF a >= b THEN a ELSE b

RECURSIVE GCD(_, _)
GCD(a, b) == IF b = 0 THEN a ELSE GCD(b, a % b)

\* A float that is the quotient of two small naturals, kept as the reduced
\* fraction, so that two floats are equal iff the records are.
Float(n, d) == [num |-> n \div GCD(n, d), den |-> d \div GCD(n, d)]

Shapes ==
    {s \in UNION {[1..r -> 1..MaxVoxels] : r \in 1..MaxRank} : Prod(s) <= MaxVoxels}

\* What load_nifti returns: an array of intensities (here 0.0 or 1.0).
Volumes == UNION {[kind : {"volume"}, shape : {s}, data : [1..Prod(s) -> {0, 1}]] : s \in Shapes}

\* `volume > 0.5`: the boolean mask of a loaded volume.
Threshold(vol) ==
    [shape |-> vol.shape, data |-> [k \in 1..Len(vol.data) |-> 2 * vol.data[k] > 1]]

Masks == {Threshold(v) : v \in Volumes}

\* numpy broadcasting: shapes are aligned at their last axis, a missing axis
\* counts as 1, and two axes are compatible iff equal or one of them is 1.
Pad(s, r) == [j \in 1..r |-> IF j <= r - Len(s) THEN 1 ELSE s[j - (r - Len(s))]]

Broadcastable(s1, s2) ==
    LET r == Max(Len(s1), Len(s2))
        a == Pad(s1, r)
        b == Pad(s2, r)
    IN  \A j \in 1..r : a[j] = b[j] \/ a[j] = 1 \/ b[j] = 1

BroadcastShape(s1, s2) ==
    LET r == Max(Len(s1), Len(s2))
        a == Pad(s1, r)
        b == Pad(s2, r)
    IN  [j \in 1..r |-> IF a[j] = 1 THEN b[j] ELSE a[j]]

Stride(s, j) == Prod(SubSeq(s, j + 1, Len(s)))

Coord(s, k, j) == (k \div Stride(s, j)) % s[j]

\* The element of mask m that lands on flat position k (from 0) of the
\* broadcast shape sr: an axis of length 1 is repeated along sr.
BroadcastAt(m, sr, k) ==
    LET a == Pad(m.shape, Len(sr))
        off == [j \in 1..Len(sr) |->
                    (IF a[j] = 1 THEN 0 ELSE Coord(sr, k, j)) * Stride(a, j)]
    IN  m.data[SumSeq(off) + 1]

\* np.logical_and(seg1, seg2) of two broadcastable masks.
logical_and(m1, m2) ==
    LET sr == BroadcastShape(m1.shape, m2.shape)
    IN  [shape |-> sr,
         data |-> [k \in 1..Prod(sr) |-> BroadcastAt(m1, sr, k - 1) /\ BroadcastAt(m2, sr, k - 1)]]

\* A slip that counts every voxel of the mask.
sum_size(m) == Len(m.data)

\* mask.sum(): the number of true voxels.
sum(m) == SumSeq([k \in 1..Len(m.data) |-> IF m.data[k] THEN 1 ELSE 0])

----------------------------------------------------------------------------
(* dice_score (the same eight lines in chat_dice.py, new_dice_score.py,     *)
(* dice_score_folder.py and dice_score.py).  The function does not compare  *)
(* the shapes: np.logical_and raises ValueError when they do not broadcast  *)
(* and otherwise works on the broadcast shape.                              *)

\* A slip that counts the voxels of either mask as the overlap.
intersection_or(seg1_, seg2_) ==
    LET sr == BroadcastShape(seg1_.shape, seg2_.shape)
    IN  SumSeq([k \in 1..Prod(sr) |->
            IF BroadcastAt(seg1_, sr, k - 1) \/ BroadcastAt(seg2_, sr, k - 1) THEN 1 ELSE 0])

\* A slip that adds seg1.sum() twice.
total_seg1_twice(seg1_, seg2_) == sum(seg1_) + sum(seg1_)

intersection(seg1_, seg2_) == sum(logical_and(seg1_, seg2_))

total(seg1_, seg2_) == sum(seg1_) + sum(seg2_)

\* A slip that leaves out the factor 2.
dice_score_undoubled(seg1_, seg2_) ==
    IF ~Broadcastable(seg1_.shape, seg2_.shape)
    THEN [kind |-> "ValueError"]
    ELSE IF total(seg1_, seg2_) = 0
         THEN [kind |-> "float", val |-> Float(1, 1)]
         ELSE [kind |-> "float",
               val |-> Float(intersection(seg1_, seg2_), total(seg1_, seg2_))]

\* A slip that scores two empty masks as 0.
dice_score_empty_zero(seg1_, seg2_) ==
    IF ~Broadcastable(seg1_.shape, seg2_.shape)
    THEN [kind |-> "ValueError"]
    ELSE IF total(seg1_, seg2_) = 0
         THEN [kind |-> "float", val |-> Float(0, 1)]
         ELSE [kind |-> "float",
               val |-> Float(2 * intersection(seg1_, seg2_), total(seg1_, seg2_))]

dice_score(seg1_, seg2_) ==
    IF ~Broadcastable(seg1_.shape, seg2_.shape)
    THEN [kind |-> "ValueError"]
    ELSE IF total(seg1_, seg2_) = 0
         THEN [kind |-> "float", val |-> Float(1, 1)]
         ELSE [kind |-> "float",
               val |-> Float(2 * intersection(seg1_, seg2_), total(seg1_, seg2_))]

----------------------------------------------------------------------------
(* SpecScore: one call of dice_score on any two masks.                      *)

InitScore ==
    /\ script = "dice_score"
    /\ pc = "run"
    /\ i = 0
    /\ tumor_list = <<>>
    /\ fs = None
    /\ seg1 \in Masks
    /\ seg2 \in Masks
    /\ path_seg1 = None
    /\ path_seg2 = None
    /\ dice = None
    /\ series1_data = {}
    /\ series2_data = {}
    /\ volume_df = {}
    /\ results = <<>>
    /\ err = None
    /\ csv_files = 0
    /\ df = <<>>
    /\ reference_phase = None
    /\ tumour_name = None
    /\ df_disp = None

ScoreCall ==
    /\ script = "dice_score"
    /\ pc = "run"
    /\ dice' = dice_score(seg1, seg2)
    /\ pc' = IF dice'.kind = "ValueError" THEN "raised" ELSE "done"
    /\ err' = IF dice'.kind = "ValueError" THEN dice' ELSE None
    /\ UNCHANGED <<script, i, tumor_list, fs, seg1, seg2, path_seg1, path_seg2, series1_data, series2_data,
                 volume_df, results>>
    /\ UNCHANGED dispVars

NextScore == ScoreCall

SpecScore == InitScore /\ [][NextScore]_vars

InUnitInterval(r) == r.kind = "float" /\ 0 <= r.val.num /\ r.val.num <= r.val.den

\* C1: for every pair of boolean masks of equal shape, dice_score returns a
\* value v with 0 <= v <= 1.
C1_ScoreInUnitInterval ==
    (script = "dice_score" /\ pc # "run" /\ seg1.shape = seg2.shape)
        => (pc = "done" /\ InUnitInterval(dice))

\* C1 witness: an equal-shape call that returned a value strictly inside (0,1).
C1_Witness ==
    /\ script = "dice_score" /\ pc = "done" /\ seg1.shape = seg2.shape
    /\ dice.kind = "float" /\ 0 < dice.val.num /\ dice.val.num < dice.val.den

\* C10: for all boolean masks A and B of equal shape,
\* dice_score(A, B) equals dice_score(B, A).
C10_ScoreSymmetric ==
    (script = "dice_score" /\ pc # "run" /\ seg1.shape = seg2.shape)
        => dice = dice_score(seg2, seg1)

\* C10 witness: a scored pair of different equal-shape masks with different
\* numbers of true voxels and a non-empty overlap.
C10_Witness ==
    /\ script = "dice_score" /\ pc = "done" /\ seg1.shape = seg2.shape
    /\ sum(seg1) # sum(seg2) /\ intersection(seg1, seg2) > 0

\* The positions of the true voxels of a mask.
TrueVoxels(m) == {k \in 1..Len(m.data) : m.data[k]}

\* C11: for every boolean mask A with at least one true voxel,
\* dice_score(A, A) is exactly 1.0.
C11_SelfOverlapPerfect ==
    (script = "dice_score" /\ pc # "run" /\ seg1 = seg2 /\ TrueVoxels(seg1) # {})
        => (pc = "done" /\ dice.kind = "float" /\ dice.val.num = 1 /\ dice.val.den = 1)

\* C11 witness: a mask with true and false voxels was scored against itself.
C11_Witness ==
    /\ script = "dice_score" /\ pc = "done" /\ seg1 = seg2
    /\ TrueVoxels(seg1) # {} /\ TrueVoxels(seg1) # 1..Len(seg1.data)

\* C12: when both masks have no true voxel (|A| + |B| = 0), dice_score
\* returns 1.0, whatever the shape the two masks have, instead of dividing
\* by zero or returning 0.
C12_BothEmptyScoresOne ==
    (script = "dice_score" /\ pc # "run" /\ seg1.shape = seg2.shape
        /\ TrueVoxels(seg1) = {} /\ TrueVoxels(seg2) = {})
        => (pc = "done" /\ dice.kind = "float" /\ dice.val.num = 1 /\ dice.val.den = 1)

\* C12 witness: two empty masks of a two-axis shape with more than one
\* voxel were scored.
C12_Witness ==
    /\ script = "dice_score" /\ pc = "done" /\ seg1.shape = seg2.shape
    /\ Len(seg1.shape) = 2 /\ Len(seg1.data) > 1
    /\ TrueVoxels(seg1) = {} /\ TrueVoxels(seg2) = {}

\* C13: for all equal-shape boolean masks A and B that are not both empty,
\* dice_score(A, B) equals 2*|A and B| / (|A| + |B|) counting true voxels;
\* in particular it is 0.0 exactly when A and B share no true voxel.
C13_ScoreIsDiceFormula ==
    (script = "dice_score" /\ pc # "run" /\ seg1.shape = seg2.shape
        /\ TrueVoxels(seg1) \cup TrueVoxels(seg2) # {})
        => LET both == Cardinality(TrueVoxels(seg1) \cap TrueVoxels(seg2))
               size == Cardinality(TrueVoxels(seg1)) + Cardinality(TrueVoxels(seg2))
           IN  /\ pc = "done"
               /\ dice.kind = "float"
               /\ dice.val.num * size = 2 * both * dice.val.den
               /\ dice.val.den > 0
               /\ (dice.val.num = 0) <=> (TrueVoxels(seg1) \cap TrueVoxels(seg2) = {})

\* C13 witness: two non-empty masks that share no true voxel were scored 0.0.
C13_Witness ==
    /\ script = "dice_score" /\ pc = "done" /\ seg1.shape = seg2.shape
    /\ TrueVoxels(seg1) # {} /\ TrueVoxels(seg2) # {}
    /\ TrueVoxels(seg1) \cap TrueVoxels(seg2) = {}
    /\ dice.kind = "float" /\ dice.val.num = 0

----------------------------------------------------------------------------
(* Strings that the code parses or normalises are sequences of characters.  *)

Digits == {"0", "1", "2", "3", "4", "5", "6", "7", "8", "9"}

DigitVal(c) ==
    CASE c = "0" -> 0 [] c = "1" -> 1 [] c = "2" -> 2 [] c = "3" -> 3 [] c = "4" -> 4
      [] c = "5" -> 5 [] c = "6" -> 6 [] c = "7" -> 7 [] c = "8" -> 8 [] c = "9" -> 9

IsSpace(c) == c = " "

RECURSIVE lstrip(_)
lstrip(s) == IF s # <<>> /\ IsSpace(Head(s)) THEN lstrip(Tail(s)) ELSE s

RECURSIVE rstrip(_)
rstrip(s) == IF s # <<>> /\ IsSpace(s[Len(s)]) THEN rstrip(SubSeq(s, 1, Len(s) - 1)) ELSE s

\* str.strip()
strip(s) == rstrip(lstrip(s))

LowerChar(c) ==
    CASE c = "I" -> "i" [] c = "N" -> "n" [] c = "E" -> "e" [] c = "X" -> "x"
      [] c = "A" -> "a" [] c = "V" -> "v" [] c = "G" -> "g" [] OTHER -> c

\* str.lower()
lower(s) == [k \in 1..Len(s) |-> LowerChar(s[k])]

\* The strings int() and float() accept, among the strings of this model:
\* decimal digits, with blanks around them allowed.
IsNumeral(s) == strip(s) # <<>> /\ \A k \in 1..Len(strip(s)) : strip(s)[k] \in Digits

RECURSIVE DigitsValue(_)
DigitsValue(s) ==
    IF s = <<>> THEN 0 ELSE 10 * DigitsValue(SubSeq(s, 1, Len(s) - 1)) + DigitVal(s[Len(s)])

\* The value int(s) or float(s) of a string they accept.
NumeralValue(s) == DigitsValue(strip(s))

----------------------------------------------------------------------------
(* The DICE drivers.                                                        *)

MaxTumors == 2         \* the structures are tumour1 .. tumour<MaxTumors>
MaxFiles == 2          \* at most MaxFiles segmentation files exist per structure
MaxBatchVoxels == 2    \* the volumes on disk are 1-D with 1..MaxBatchVoxels voxels
RoundDigits == 4       \* round(dice, 4)

Tumors == 1..MaxTumors

Corrupt == [kind |-> "corrupt"]
Absent == [kind |-> "absent"]

BatchVolumes ==
    UNION {[kind : {"volume"}, shape : {<<d>>}, data : [1..d -> {0, 1}]] : d \in 1..MaxBatchVoxels}

\* What a path can hold when it is opened: a decodable volume or a file that
\* nib.load / get_fdata rejects.
FileContent == BatchVolumes \cup {Corrupt}

RECURSIVE Pow10(_)
Pow10(n) == IF n = 0 THEN 1 ELSE 10 * Pow10(n - 1)

\* round(x, ndigits) of a non-negative float: round half to even.
round(x, ndigits) ==
    LET scale == Pow10(ndigits)
        q == (x.num * scale) \div x.den
        r == (x.num * scale) % x.den
        up == 2 * r > x.den \/ (2 * r = x.den /\ q % 2 = 1)
    IN  Float(IF up THEN q + 1 ELSE q, scale)

Perms(S) == {f \in [1..Cardinality(S) -> S] : \A a, b \in DOMAIN f : f[a] = f[b] => a = b}

NA == [kind |-> "N/A"]
NotFound == [kind |-> "Not found"]

\* chat_dice.py: path1 / path2 of a tumour,
\* {base_dir}/{modality}_pat{id}_segmentations/{series_id}_{tumor}.nii.gz
SegPath(side, tumor) == [layout |-> "pat_segmentations", side |-> side, tumor |-> tumor]

\* One iteration of the loop of enhanced_dice_evaluation.  c1, c2: what is at
\* path1, path2.  seg1, seg2 and dice are locals of the function and keep the
\* values of an earlier iteration when this one does not assign them.
EnhancedIteration ==
    /\ script = "enhanced_dice_evaluation"
    /\ pc = "run"
    /\ i < Len(tumor_list)
    /\ \E c1, c2 \in FileContent \cup {Absent} :
        LET tumor == tumor_list[i + 1]
            path1 == SegPath(1, tumor)
            path2 == SegPath(2, tumor)
            m1 == Threshold(c1)
            m2 == Threshold(c2)
        IN  /\ fs' = {p \in {path1, path2} : (p = path1 /\ c1 # Absent) \/ (p = path2 /\ c2 # Absent)}
            /\ IF c1 = Absent \/ c2 = Absent
               THEN /\ results' = Append(results,
                          [tumor |-> tumor,
                           modality1_path |-> IF c1 # Absent THEN path1 ELSE NotFound,
                           modality2_path |-> IF c2 # Absent THEN path2 ELSE NotFound,
                           dice_score |-> NA,
                           note |-> [kind |-> "Missing file(s)"]])
                    /\ i' = i + 1
                    /\ UNCHANGED <<seg1, seg2, dice, pc, err>>
               ELSE IF c1 = Corrupt
               THEN /\ pc' = "raised"
                    /\ err' = [kind |-> "load error", path |-> path1]
                    /\ UNCHANGED <<seg1, seg2, dice, results, i>>
               ELSE IF c2 = Corrupt
               THEN /\ seg1' = m1
                    /\ pc' = "raised"
                    /\ err' = [kind |-> "load error", path |-> path2]
                    /\ UNCHANGED <<seg2, dice, results, i>>
               ELSE /\ seg1' = m1
                    /\ seg2' = m2
                    /\ i' = i + 1
                    /\ UNCHANGED <<pc, err>>
                    /\ IF m1.shape # m2.shape
                       THEN /\ results' = Append(results,
                                  [tumor |-> tumor,
                                   modality1_path |-> path1,
                                   modality2_path |-> path2,
                                   dice_score |-> NA,
                                   note |-> [kind |-> "Shape mismatch",
                                             shape1 |-> m1.shape, shape2 |-> m2.shape]])
                            /\ UNCHANGED dice
                       ELSE /\ dice' = dice_score(m1, m2)
                            /\ results' = Append(results,
                                  [tumor |-> tumor,
                                   modality1_path |-> path1,
                                   modality2_path |-> path2,
                                   dice_score |-> [kind |-> "float",
                                                   val |-> round(dice'.val, RoundDigits)],
                                   note |-> [kind |-> "OK"]])
    /\ UNCHANGED <<script, tumor_list, path_seg1, path_seg2, series1_data, series2_data, volume_df>>
    /\ UNCHANGED dispVars

\* After the loop: the summary CSV is written and results_df returned.
EnhancedSave ==
    /\ script = "enhanced_dice_evaluation"
    /\ pc = "run"
    /\ i = Len(tumor_list)
    /\ pc' = "done"
    /\ UNCHANGED <<script, i, results, err>>
    /\ UNCHANGED diceVars
    /\ UNCHANGED dispVars

----------------------------------------------------------------------------
(* new_dice_score.py: find_segmentation_file, compare_tumors and            *)
(* analyze_all_tumors.  side 1 is (modality1, series_id1), side 2 is        *)
(* (modality2, series_id2); the two pairs differ.                           *)

\* Places in the tree that belong to neither requested pair.
Elsewhere == {0, 3}

\* The files under base_dir whose name contains the tumour name: the paths
\* of patterns 1-3 for either side, and files elsewhere in the tree
\* (pattern 4) that only the recursive search finds.
PathsOf(tumor) ==
    {[pattern |-> k, side |-> sd, tumor |-> tumor] : k \in 1..3, sd \in 1..2}
        \cup {[pattern |-> 4, side |-> sd, tumor |-> tumor] : sd \in Elsewhere}

FileSystems(tumor) == {S \in SUBSET PathsOf(tumor) : Cardinality(S) <= MaxFiles}

\* A slip that searches by name before it tries the structured paths.
find_segmentation_file_name_first(listing, side, tumor) ==
    LET named == SelectSeq(listing, LAMBDA p : p.tumor = tumor)
    IN  IF named # <<>> THEN named[1] ELSE None

\* A slip that lets the name search depend on the requested pair: for the
\* second pair it takes the last match.
find_segmentation_file_by_side(listing, side, tumor) ==
    LET named == SelectSeq(listing, LAMBDA p : p.tumor = tumor)
        structured == SelectSeq(listing, LAMBDA p : p.pattern <= 3 /\ p.side = side)
        first == CHOOSE p \in {structured[n] : n \in 1..Len(structured)} :
                    \A q \in {structured[n] : n \in 1..Len(structured)} : p.pattern <= q.pattern
    IN  IF structured # <<>> THEN first
        ELSE IF named = <<>> THEN None
        ELSE IF side = 1 THEN named[1] ELSE named[Len(named)]

\* glob.glob(patterns[k], recursive=True).  listing: the files under
\* base_dir in the order the directory scan yields them; the result keeps
\* that order.  Patterns 1-3 are plain paths of the requested modality and
\* series; pattern 4 matches every file whose name holds the tumor name.
glob(listing, k, side, tumor) ==
    IF k <= 3
    THEN SelectSeq(listing, LAMBDA p : p = [pattern |-> k, side |-> side, tumor |-> tumor])
    ELSE SelectSeq(listing, LAMBDA p : p.tumor = tumor)

\* Lines 52-57: files[0] of the first pattern that matches anything.
RECURSIVE FirstMatch(_, _, _, _)
FirstMatch(listing, k, side, tumor) ==
    IF k > 4 THEN None
    ELSE IF glob(listing, k, side, tumor) # <<>> THEN glob(listing, k, side, tumor)[1]
    ELSE FirstMatch(listing, k + 1, side, tumor)

find_segmentation_file(listing, side, tumor) == FirstMatch(listing, 1, side, tumor)

\* compare_tumors with the CSV paths given.  path_seg1_, path_seg2_: what the
\* two lookups returned; c1, c2: what these paths hold.  The result is the
\* return value, the locals at the return, and what was printed.
compare_tumors(tumor, s1data, s2data, path_seg1_, path_seg2_, c1, c2) ==
    LET ret(d, a, b, p1, p2, lines) ==
            [dice |-> d, seg1 |-> a, seg2 |-> b, path_seg1 |-> p1, path_seg2 |-> p2,
             printed |-> lines]
        found == [kind |-> "Found segmentation files", path_seg1 |-> path_seg1_, path_seg2 |-> path_seg2_]
        failed == [kind |-> "Error processing", tumor |-> tumor]
        m1 == Threshold(c1)
        m2 == Threshold(c2)
    IN  IF s1data = {}
        THEN ret(None, None, None, None, None, <<[kind |-> "Series ID not found", side |-> 1]>>)
        ELSE IF s2data = {}
        THEN ret(None, None, None, None, None, <<[kind |-> "Series ID not found", side |-> 2]>>)
        ELSE IF tumor \notin s1data
        THEN ret(None, None, None, None, None, <<[kind |-> "Tumor not found in series", side |-> 1]>>)
        ELSE IF tumor \notin s2data
        THEN ret(None, None, None, None, None, <<[kind |-> "Tumor not found in series", side |-> 2]>>)
        ELSE IF path_seg1_ = None
        THEN ret(None, None, None, path_seg1_, path_seg2_,
                 <<[kind |-> "Could not find segmentation file", side |-> 1]>>)
        ELSE IF path_seg2_ = None
        THEN ret(None, None, None, path_seg1_, path_seg2_,
                 <<[kind |-> "Could not find segmentation file", side |-> 2]>>)
        ELSE IF c1 = Corrupt
        THEN ret(None, None, None, path_seg1_, path_seg2_, <<found, failed>>)
        ELSE IF c2 = Corrupt
        THEN ret(None, c1, None, path_seg1_, path_seg2_, <<found, failed>>)
        ELSE IF dice_score(m1, m2).kind = "ValueError"
        THEN ret(None, m1, m2, path_seg1_, path_seg2_, <<found, failed>>)
        ELSE ret(dice_score(m1, m2), m1, m2, path_seg1_, path_seg2_,
                 <<found, [kind |-> "DICE Score", tumor |-> tumor, val |-> dice_score(m1, m2).val]>>)

\* Lines 103-122: the CSV checks that come before the two lookups pass.
ReachesLookups(tumor, s1data, s2data) ==
    s1data # {} /\ s2data # {} /\ tumor \in s1data /\ tumor \in s2data

\* Lines 125-126: the pairs <<path_seg1, path_seg2>> the two lookups can
\* return.  The directory scan has one order for both lookups.
Lookups(files, tumor) ==
    {<<find_segmentation_file(listing, 1, tumor), find_segmentation_file(listing, 2, tumor)>> :
        listing \in Perms(files)}

\* Lines 142-143: what the first path can hold.  The content matters only if
\* the file is opened, which takes both lookups to succeed.
FirstContent(opened) == IF opened THEN FileContent ELSE {Corrupt}

\* What the second path can hold.  It is opened only after the first file
\* was loaded, and a path opened twice holds the same content.
SecondContent(opened, same, c1) ==
    IF ~opened \/ c1 = Corrupt THEN {Corrupt}
    ELSE IF same THEN {c1}
    ELSE FileContent

\* The script run with --tumor: one call of compare_tumors.
CompareCall ==
    /\ script = "compare_tumors"
    /\ pc = "run"
    /\ \E pp \in Lookups(fs, tumor_list[1]) :
       \E c1 \in FirstContent(/\ ReachesLookups(tumor_list[1], series1_data, series2_data)
                              /\ pp[1] # None /\ pp[2] # None) :
       \E c2 \in SecondContent(/\ ReachesLookups(tumor_list[1], series1_data, series2_data)
                               /\ pp[1] # None /\ pp[2] # None,
                               pp[1] = pp[2], c1) :
        LET tumor == tumor_list[1]
            out == compare_tumors(tumor, series1_data, series2_data, pp[1], pp[2], c1, c2)
        IN  /\ dice' = out.dice
            /\ seg1' = out.seg1
            /\ seg2' = out.seg2
            /\ path_seg1' = out.path_seg1
            /\ path_seg2' = out.path_seg2
            /\ results' = out.printed
    /\ pc' = "done"
    /\ i' = 1
    /\ UNCHANGED <<script, tumor_list, fs, series1_data, series2_data, volume_df, err>>
    /\ UNCHANGED dispVars

\* One iteration of the loop of analyze_all_tumors over common_tumors.  The
\* files of the tumour are met here; the locals of compare_tumors do not
\* outlive the call.
AnalyzeIteration ==
    /\ script = "analyze_all_tumors"
    /\ pc = "run"
    /\ i < Len(tumor_list)
    /\ \E files \in FileSystems(tumor_list[i + 1]) :
       \E pp \in Lookups(files, tumor_list[i + 1]) :
       \E c1 \in FirstContent(pp[1] # None /\ pp[2] # None) :
       \E c2 \in SecondContent(pp[1] # None /\ pp[2] # None, pp[1] = pp[2], c1) :
        LET tumor == tumor_list[i + 1]
            out == compare_tumors(tumor, series1_data, series2_data, pp[1], pp[2], c1, c2)
        IN  /\ fs' = files
            /\ dice' = out.dice
            /\ results' = IF out.dice # None
                          THEN [t \in DOMAIN results \cup {tumor} |->
                                    IF t = tumor THEN out.dice.val ELSE results[t]]
                          ELSE results
    /\ i' = i + 1
    /\ UNCHANGED <<script, pc, tumor_list, seg1, seg2, path_seg1, path_seg2, series1_data, series2_data,
                 volume_df, err>>
    /\ UNCHANGED dispVars

AnalyzeReturn ==
    /\ script = "analyze_all_tumors"
    /\ pc = "run"
    /\ i = Len(tumor_list)
    /\ pc' = "done"
    /\ UNCHANGED <<script, i, results, err>>
    /\ UNCHANGED diceVars
    /\ UNCHANGED dispVars


----------------------------------------------------------------------------
(* dice_score_folder.py: the ground truth mask against every other volume   *)
(* of the folder.  A file name is head, "_" (if sep), tail, ext.             *)

gt_filename == [head |-> <<"3", "0">>, sep |-> TRUE, tail |-> "middle_tumour", ext |-> ".nii.gz"]

FolderNames ==
    {gt_filename,
     [head |-> <<"3", "1">>, sep |-> TRUE, tail |-> "middle_tumour", ext |-> ".nii.gz"],
     [head |-> <<"3", "1">>, sep |-> TRUE, tail |-> "middle_tumour", ext |-> ".nii"],
     [head |-> <<"3", "1">>, sep |-> FALSE, tail |-> "", ext |-> ".nii.gz"],
     [head |-> <<"g", "t">>, sep |-> TRUE, tail |-> "middle_tumour", ext |-> ".nii.gz"],
     [head |-> <<"d", "i", "c", "e">>, sep |-> TRUE, tail |-> "itv_summary", ext |-> ".csv"]}

\* os.listdir(folder_path): the names of the folder, each once, in any order.
Listings ==
    UNION {{f \in [1..n -> FolderNames] : \A a, b \in 1..n : f[a] = f[b] => a = b} : n \in 0..MaxFiles}

ExtChars(ext) ==
    CASE ext = ".nii" -> <<".", "n", "i", "i">>
      [] ext = ".csv" -> <<".", "c", "s", "v">>
      [] OTHER -> <<>>

\* parts = file.replace(".nii.gz", "").split("_", 1): parts[0], and the
\* name parts[1] with what the replace left of the extension.
Parts0(file) ==
    IF file.sep THEN file.head
    ELSE file.head \o (IF file.ext = ".nii.gz" THEN <<>> ELSE ExtChars(file.ext))

Parts1(file) == [name |-> file.tail, rest |-> IF file.ext = ".nii.gz" THEN "" ELSE file.ext]

\* One iteration of the comparison loop.  seg1 is gt_mask, seg2 is pred_mask,
\* dice is score.
FolderIteration ==
    /\ script = "dice_score_folder"
    /\ pc = "run"
    /\ i < Len(fs)
    /\ i' = i + 1
    /\ LET file == fs[i + 1]
           error(e) == Append(results, [filename |-> file, dice_score |-> [kind |-> "ERROR"],
                                        itv_volume_mm3 |-> [kind |-> "error text", exc |-> e]])
       IN  IF file.ext \notin {".nii", ".nii.gz"} \/ file = gt_filename
           THEN UNCHANGED <<seg2, dice, results>>
           ELSE \E c \in FileContent :
                IF c = Corrupt
                THEN /\ results' = error("load error")
                     /\ UNCHANGED <<seg2, dice>>
                ELSE /\ seg2' = Threshold(c)
                     /\ IF dice_score(seg1, seg2').kind = "ValueError"
                        THEN /\ results' = error("ValueError: operands could not be broadcast")
                             /\ UNCHANGED dice
                        ELSE /\ dice' = dice_score(seg1, seg2')
                             /\ IF ~IsNumeral(Parts0(file))
                                THEN results' = error("ValueError: invalid literal for int()")
                                ELSE IF ~file.sep
                                THEN results' = error("IndexError")
                                ELSE LET series_id == NumeralValue(Parts0(file))
                                         row == {r \in volume_df :
                                                    /\ r.series_id = series_id
                                                    /\ r.name = Parts1(file)}
                                     IN  results' = Append(results,
                                            [filename |-> file,
                                             dice_score |-> [kind |-> "float",
                                                             val |-> round(dice'.val, RoundDigits)],
                                             itv_volume_mm3 |->
                                                 IF row # {}
                                                 THEN [kind |-> "float",
                                                       val |-> (CHOOSE r \in row : TRUE).volume]
                                                 ELSE NA])
    /\ UNCHANGED <<script, pc, tumor_list, fs, seg1, path_seg1, path_seg2, series1_data, series2_data,
                 volume_df, err>>
    /\ UNCHANGED dispVars

\* After the loop: the summary CSV is written.
FolderSave ==
    /\ script = "dice_score_folder"
    /\ pc = "run"
    /\ i = Len(fs)
    /\ pc' = "done"
    /\ UNCHANGED <<script, i, results, err>>
    /\ UNCHANGED diceVars
    /\ UNCHANGED dispVars

\* The row the reference table can hold for file 31_middle_tumour.nii.gz.
VolumeRow ==
    [series_id |-> 31, name |-> [name |-> "middle_tumour", rest |-> ""], volume |-> Float(1000, 1)]

InitDrivers ==
    /\ script \in {"enhanced_dice_evaluation", "compare_tumors", "analyze_all_tumors",
                   "dice_score_folder"}
    /\ pc = "run"
    /\ i = 0
    /\ seg2 = None
    /\ path_seg1 = None
    /\ path_seg2 = None
    /\ dice = None
    /\ results = <<>>
    /\ err = None
    /\ csv_files = 0
    /\ df = <<>>
    /\ reference_phase = None
    /\ tumour_name = None
    /\ df_disp = None
    /\ IF script = "dice_score_folder"
       THEN /\ seg1 \in {Threshold(v) : v \in BatchVolumes}
            /\ volume_df \in SUBSET {VolumeRow}
       ELSE /\ seg1 = None
            /\ volume_df = {}
    /\ CASE script = "enhanced_dice_evaluation" ->
                /\ \E n \in 0..MaxTumors : tumor_list = [k \in 1..n |-> k]
                /\ fs = {}
                /\ series1_data = {}
                /\ series2_data = {}
         [] script = "dice_score_folder" ->
                /\ fs \in Listings
                /\ tumor_list = <<>>
                /\ series1_data = {}
                /\ series2_data = {}
         [] script = "compare_tumors" ->
                /\ \E t \in Tumors : tumor_list = <<t>> /\ fs \in FileSystems(t)
                /\ series1_data \in SUBSET Tumors
                /\ series2_data \in SUBSET Tumors
         [] script = "analyze_all_tumors" ->
                /\ series1_data \in SUBSET Tumors
                /\ series2_data \in SUBSET Tumors
                /\ tumor_list \in Perms(series1_data \cap series2_data)
                /\ fs = {}

NextDrivers ==
    \/ EnhancedIteration
    \/ EnhancedSave
    \/ CompareCall
    \/ AnalyzeIteration
    \/ AnalyzeReturn
    \/ FolderIteration
    \/ FolderSave

SpecDrivers == InitDrivers /\ [][NextDrivers]_vars

----------------------------------------------------------------------------
(* SpecFind: find_segmentation_file called for the two (modality, series)   *)
(* pairs of a comparison, on one directory tree.                            *)

InitFind ==
    /\ script = "find_segmentation_file"
    /\ pc = "run"
    /\ i = 0
    /\ \E t \in Tumors : tumor_list = <<t>> /\ fs \in FileSystems(t)
    /\ seg1 = None
    /\ seg2 = None
    /\ path_seg1 = None
    /\ path_seg2 = None
    /\ dice = None
    /\ series1_data = {}
    /\ series2_data = {}
    /\ volume_df = {}
    /\ results = <<>>
    /\ err = None
    /\ csv_files = 0
    /\ df = <<>>
    /\ reference_phase = None
    /\ tumour_name = None
    /\ df_disp = None

\* new_dice_score.py, lines 125-126: the two lookups.
FindCall ==
    /\ script = "find_segmentation_file"
    /\ pc = "run"
    /\ \E listing \in Perms(fs) :
        /\ path_seg1' = find_segmentation_file(listing, 1, tumor_list[1])
        /\ path_seg2' = find_segmentation_file(listing, 2, tumor_list[1])
    /\ pc' = "done"
    /\ UNCHANGED <<script, i, tumor_list, fs, seg1, seg2, dice, series1_data, series2_data,
                 volume_df, results, err>>
    /\ UNCHANGED dispVars

NextFind == FindCall

SpecFind == InitFind /\ [][NextFind]_vars

\* The files a lookup strategy matches: strategies 1-3 name one path of the
\* requested modality and series, the recursive name search matches every
\* file of the structure.
Matches(k, side) ==
    IF k <= 3
    THEN fs \cap {[pattern |-> k, side |-> side, tumor |-> tumor_list[1]]}
    ELSE {p \in fs : p.tumor = tumor_list[1]}

Returned(side) == IF side = 1 THEN path_seg1 ELSE path_seg2

\* C14: find_segmentation_file tries its strategies in the order 1, 2, 3,
\* recursive name search, and returns a match of the first strategy that has
\* any match: a later strategy's result is returned only if every earlier
\* strategy matched nothing, and None is returned if and only if no strategy
\* matches.
C14_FirstMatchingStrategyWins ==
    (script = "find_segmentation_file" /\ pc = "done")
        => \A side \in 1..2 :
            /\ (Returned(side) = None) <=> (\A k \in 1..4 : Matches(k, side) = {})
            /\ Returned(side) # None
                => \E k \in 1..4 : /\ Returned(side) \in Matches(k, side)
                                   /\ \A j \in 1..(k - 1) : Matches(j, side) = {}

\* C14 witness: the first lookup took the file of strategy 2 although the
\* name search matches another file too, and the second lookup, with no
\* structured match, fell back to the name search.
C14_Witness ==
    /\ script = "find_segmentation_file" /\ pc = "done"
    /\ path_seg1 # None /\ path_seg1.pattern = 2
    /\ Cardinality(Matches(4, 1)) = 2
    /\ path_seg2 # None /\ \A k \in 1..3 : Matches(k, 2) = {}

----------------------------------------------------------------------------
(* SpecCompare: the script run with --tumor, on any directory tree and any  *)
(* CSV metadata.                                                            *)

\* The rows of a series' CSV: none, the tumor alone, or only the other
\* structures.
InitCompare ==
    /\ InitDrivers
    /\ script = "compare_tumors"
    /\ \A data \in {series1_data, series2_data} :
          data \in {{}, {tumor_list[1]}, Tumors \ {tumor_list[1]}}

NextCompare == CompareCall

SpecCompare == InitCompare /\ [][NextCompare]_vars

\* compare_tumors reached its two lookups: both series have rows and both
\* list the tumor.
LookupsMade ==
    /\ script = "compare_tumors" /\ pc = "done"
    /\ tumor_list[1] \in series1_data \cap series2_data

NoStructuredMatch == \A side \in 1..2 : \A k \in 1..3 : Matches(k, side) = {}

One == [kind |-> "float", val |-> Float(1, 1)]

\* C15 as claimed: the recursive fallback depends only on base_dir and the
\* tumor name, so when none of the three structured patterns matches for
\* either side, the two lookups of compare_tumors resolve to the same file
\* and the structure is compared with itself (score 1.0) rather than
\* reported as not found.
C15_FallbackComparesWithItself ==
    (LookupsMade /\ NoStructuredMatch)
        => /\ path_seg1 # None
           /\ path_seg1 = path_seg2
           /\ dice = One

\* C15 as amended: when none of the three structured patterns matches for
\* either side, the two lookups return the same value.  If the name search
\* matches a file, both return that file and the structure is compared with
\* itself: the score is 1.0 if the file can be loaded, and a caught load
\* error with no score otherwise.  If the name search matches nothing, both
\* return None and the structure is reported as not found.
C15_FallbackSameFileForBothSides ==
    (LookupsMade /\ NoStructuredMatch)
        => /\ path_seg1 = path_seg2
           /\ IF Matches(4, 1) = {}
              THEN /\ path_seg1 = None
                   /\ dice = None
                   /\ results = <<[kind |-> "Could not find segmentation file", side |-> 1]>>
              ELSE /\ path_seg1 \in Matches(4, 1)
                   /\ results[1].kind = "Found segmentation files"
                   /\ \/ dice = One /\ seg1 = seg2 /\ seg1 # None
                      \/ dice = None /\ seg1 = None /\ results[2].kind = "Error processing"

\* C15 witness: two files that only the name search finds; both lookups
\* returned the same one and it scored 1.0 against itself.
C15_Witness ==
    /\ LookupsMade /\ NoStructuredMatch
    /\ Cardinality(Matches(4, 1)) = 2
    /\ path_seg1 # None /\ path_seg1 = path_seg2
    /\ dice = One

\* C2: in every driver that scores a pair of loaded volumes, a pair whose
\* shapes differ is rejected before dice_score is called and never receives
\* a numeric score.
C2_ShapeMismatchRejected ==
    /\ (script = "enhanced_dice_evaluation" /\ pc # "raised" /\ i > 0
            /\ results[i].dice_score.kind = "float")
        => seg1.shape = seg2.shape
    /\ (script = "compare_tumors" /\ pc = "done" /\ dice # None)
        => seg1.shape = seg2.shape
    /\ (script = "dice_score_folder" /\ i > 0 /\ results # <<>>
            /\ results[Len(results)].filename = fs[i]
            /\ results[Len(results)].dice_score.kind = "float")
        => seg1.shape = seg2.shape

HasEntry(tumor) ==
    IF script = "analyze_all_tumors"
    THEN tumor \in DOMAIN results
    ELSE \E k \in 1..Len(results) : results[k].tumor = tumor

\* C3: for every list of structures and every combination of per-structure
\* outcomes, the batch comparison runs to the end of the list, each failing
\* structure yields an entry in the results, and no failure keeps a later
\* structure from being processed.
C3_BatchRunsToEnd ==
    script \in {"enhanced_dice_evaluation", "analyze_all_tumors"}
        => /\ pc # "raised"
           /\ pc = "done" => \A k \in 1..Len(tumor_list) : HasEntry(tumor_list[k])

----------------------------------------------------------------------------
(* The displacement extractors.                                             *)

MaxRows == 2           \* a table of SpecDisp has at most MaxRows records

L_0in == <<"0", "i", "n">>
L_25in == <<"2", "5", "i", "n">>
L_50in == <<"5", "0", "i", "n">>
L_75in == <<"7", "5", "i", "n">>
L_100in == <<"1", "0", "0", "i", "n">>
L_75ex == <<"7", "5", "e", "x">>
L_50ex == <<"5", "0", "e", "x">>
L_25ex == <<"2", "5", "e", "x">>

PHASE_ORDER == <<L_0in, L_25in, L_50in, L_75in, L_100in, L_75ex, L_50ex, L_25ex>>

Range(f) == {f[k] : k \in DOMAIN f}

\* The series identifiers the tables of the model hold: canonical phases, a
\* phase written with a blank and in upper case, a label that is no phase,
\* and a numeric series id.
RawLabels == {L_0in, L_75in, L_100in, <<" ", "0", "I", "N">>, <<"a", "v", "g">>, <<"3", "0">>}

\* The reference keys a caller passes: the default '0in', another phase, and
\* a key that is no canonical label as written.
RefKeys == {L_0in, L_75in, <<"0", "I", "N">>}

StructureNames == {"middle_tumour", "lower_tumour"}

ZValues == {10, 12}

\* A table as pd.read_csv returns it: the records in file order, each with
\* its index label.
Indexed(rows) == [k \in 1..Len(rows) |-> [index |-> k, rec |-> rows[k]]]

TablesOf(Rows) == UNION {[1..n -> Rows] : n \in 0..MaxRows}

StatsRows == [series_id : RawLabels, name : StructureNames, z : ZValues]

AxisRows == [phase : RawLabels, axis : {"z", "x"}, com : ZValues]

\* read_csv gives a column of numbers, not of strings, when every cell of a
\* non-empty column is a number.
NumericColumn(labels) ==
    labels # <<>> /\ \A k \in 1..Len(labels) : IsNumeral(labels[k])

\* Code points of the characters of the model, for the order of str.
Ord(c) ==
    CASE c = " " -> 32
      [] c \in Digits -> 48 + DigitVal(c)
      [] c = "A" -> 65 [] c = "E" -> 69 [] c = "G" -> 71 [] c = "I" -> 73
      [] c = "N" -> 78 [] c = "V" -> 86 [] c = "X" -> 88
      [] c = "a" -> 97 [] c = "e" -> 101 [] c = "g" -> 103 [] c = "i" -> 105
      [] c = "n" -> 110 [] c = "r" -> 114 [] c = "v" -> 118 [] c = "x" -> 120

\* s <= t in the order of Python strings.
RECURSIVE StrLeq(_, _)
StrLeq(s, t) ==
    IF s = <<>> THEN TRUE
    ELSE IF t = <<>> THEN FALSE
    ELSE IF Head(s) # Head(t) THEN Ord(Head(s)) < Ord(Head(t))
    ELSE StrLeq(Tail(s), Tail(t))

\* The position of a label in a list of categories, 0 if it is not in it.
Position(categories, label) ==
    IF label \in Range(categories)
    THEN CHOOSE k \in 1..Len(categories) : categories[k] = label
    ELSE 0

\* DataFrame.sort_values: the results the sort can give.  The default sort
\* is not stable, so records with equal keys come out in any order.
\* le[a, b] says that the key of record a is at most the key of record b.
SortValues(rows, le) ==
    {[k \in 1..Len(rows) |-> rows[p[k]]] :
        p \in {q \in Perms(1..Len(rows)) :
                  \A a, b \in 1..Len(rows) : a < b => le[q[a], q[b]]}}

RefError(ref, args) ==
    [kind |-> "ValueError", text |-> "Reference phase not found",
     args |-> <<[arg |-> "reference_phase", val |-> ref]>> \o args]

\* displacement_plotter_realdata.py, lines 45-51, on the sorted records.
\* A slip that takes the first record as the reference.
RefZFirstRow(sorted, ref) == sorted[1].rec.z

RefZ(sorted, ref) ==
    (SelectSeq(sorted, LAMBDA r : r.rec.series_id = ref))[1].rec.z

\* A slip that looks for the reference among the records of every structure.
RefPresentAnyName(sorted, all, ref) ==
    \E k \in 1..Len(all) : lower(strip(all[k].rec.series_id)) = ref

\* `reference_phase in df['series_id'].values` on the sorted records.
RefPresent(sorted, all, ref) ==
    \E k \in 1..Len(sorted) : sorted[k].rec.series_id = ref

IsNamed(r, name) == r.rec.name = name

\* process_structure_csv: the results the call can give.
process_structure_csv(table, file_path, name, ref) ==
    LET all == Indexed(table)
        named == SelectSeq(all, LAMBDA r : IsNamed(r, name))
        stripped == [k \in 1..Len(named) |->
                        [named[k] EXCEPT !.rec.series_id = lower(strip(@))]]
        kept == SelectSeq(stripped, LAMBDA r : r.rec.series_id \in Range(PHASE_ORDER))
        leq(a, b) == Position(PHASE_ORDER, a.rec.series_id) <= Position(PHASE_ORDER, b.rec.series_id)
        finish(sorted) ==
            IF ~RefPresent(sorted, all, ref)
            THEN RefError(ref, <<[arg |-> "file_path", val |-> file_path]>>)
            ELSE IF SelectSeq(sorted, LAMBDA r : r.rec.series_id = ref) = <<>>
            THEN [kind |-> "IndexError"]
            ELSE [kind |-> "ok",
                  rows |-> [k \in 1..Len(sorted) |->
                              [index |-> sorted[k].index,
                               label |-> sorted[k].rec.series_id,
                               z_displacement |-> sorted[k].rec.z - RefZ(sorted, ref)]]]
    IN  IF NumericColumn([k \in 1..Len(table) |-> table[k].series_id])
        THEN {[kind |-> "AttributeError", text |-> "Can only use .str accessor with string values"]}
        ELSE {finish(sorted) : sorted \in SortValues(kept, [a, b \in 1..Len(kept) |-> leq(kept[a], kept[b])])}

\* batch_displacement_processor.py, line 32: sort_values(by='phase') is the
\* order of the strings.
PhaseLeq(a, b) == StrLeq(a, b)

\* compute_displacement: the results the call can give.  A column of numbers
\* never holds the reference key, which is a string.
compute_displacement(table, ref) ==
    LET all == Indexed(table)
        zrows == SelectSeq(all, LAMBDA r : r.rec.axis = "z")
        numeric == NumericColumn([k \in 1..Len(table) |-> table[k].phase])
        leq(a, b) == PhaseLeq(a.rec.phase, b.rec.phase)
        finish(sorted) ==
            IF numeric \/ ~\E k \in 1..Len(sorted) : sorted[k].rec.phase = ref
            THEN RefError(ref, <<>>)
            ELSE LET ref_val == (SelectSeq(sorted, LAMBDA r : r.rec.phase = ref))[1].rec.com
                 IN  [kind |-> "ok",
                      rows |-> [k \in 1..Len(sorted) |->
                                  [index |-> sorted[k].index,
                                   label |-> sorted[k].rec.phase,
                                   z_displacement |-> sorted[k].rec.com - ref_val]]]
    IN  {finish(sorted) : sorted \in SortValues(zrows, [a, b \in 1..Len(zrows) |-> leq(zrows[a], zrows[b])])}

----------------------------------------------------------------------------
(* tumour_displacement.py: a script without parameters.  It picks the       *)
(* ordering from the data and hands one series per tumour to the plot.      *)

L_Average == <<"A", "v", "e", "r", "a", "g", "e">>

L_average == <<"a", "v", "e", "r", "a", "g", "e">>

TumourLabels == {L_0in, L_75in, L_100in, <<" ", "0", "I", "N">>, L_Average, <<"3", "0">>, <<"3", "1">>}

Coordinates == {<<3, 4, 12>>, <<0, 0, 5>>}

PositionRows == [series_id : TumourLabels, name : StructureNames, xyz : Coordinates]

tumour_names == <<"lower_tumour", "middle_tumour", "upper_tumour">>

\* str.contains(sub)
Contains(s, sub) ==
    \E k \in 1..(Len(s) - Len(sub) + 1) : SubSeq(s, k, k + Len(sub) - 1) = sub

\* is_numeric(s): whether float(s) succeeds.
is_numeric(s) == IsNumeral(s)

\* The square root of a perfect square.
Sqrt(n) == CHOOSE r \in 0..n : r * r = n

\* Lines 8-11: the 'average' rows are removed from a column of strings.
WithoutAverage(rows) ==
    IF NumericColumn([k \in 1..Len(rows) |-> rows[k].rec.series_id])
    THEN rows
    ELSE SelectSeq(rows, LAMBDA r : ~Contains(lower(r.rec.series_id), L_average))

\* A slip that takes the phase branch only when no identifier is numeric.
UsesPhaseOrderNoneNumeric(rows) ==
    \A k \in 1..Len(rows) : ~is_numeric(rows[k].rec.series_id)

\* Line 22: the phase branch is taken unless every identifier is numeric.
UsesPhaseOrder(rows) ==
    ~\A k \in 1..Len(rows) : is_numeric(rows[k].rec.series_id)

\* Lines 22-39: the ordered tables the script can reach.  In the phase
\* branch a label that is not one of the categories becomes NaN and sorts
\* last; the label is compared as it is written in the file.
OrderedTables(rows) ==
    IF UsesPhaseOrder(rows)
    THEN LET present == {rows[k].rec.series_id : k \in 1..Len(rows)}
             existing_phases == SelectSeq(PHASE_ORDER, LAMBDA ph : ph \in present)
             category(r) ==
                 IF r.rec.series_id \in Range(existing_phases)
                 THEN [kind |-> "phase", label |-> r.rec.series_id]
                 ELSE [kind |-> "NaN"]
             coded == [k \in 1..Len(rows) |-> [rows[k] EXCEPT !.rec.series_id = category(rows[k])]]
             key(r) == IF r.rec.series_id.kind = "NaN"
                       THEN Len(existing_phases) + 1
                       ELSE Position(existing_phases, r.rec.series_id.label)
         IN  {[order |-> "phase", rows |-> t] :
                 t \in SortValues(coded, [a, b \in 1..Len(rows) |-> key(coded[a]) <= key(coded[b])])}
    ELSE IF \A k \in 1..Len(rows) : is_numeric(rows[k].rec.series_id)
    THEN LET asfloat == [k \in 1..Len(rows) |->
                            [rows[k] EXCEPT !.rec.series_id =
                                [kind |-> "float", val |-> NumeralValue(@)]]]
         IN  {[order |-> "numeric", rows |-> t] :
                 t \in SortValues(asfloat, [a, b \in 1..Len(rows) |->
                                         asfloat[a].rec.series_id.val <= asfloat[b].rec.series_id.val])}
    ELSE {[order |-> "string", rows |-> t] :
             t \in SortValues([k \in 1..Len(rows) |->
                                  [rows[k] EXCEPT !.rec.series_id = [kind |-> "str", label |-> @]]],
                              [a, b \in 1..Len(rows) |->
                                  StrLeq(rows[a].rec.series_id, rows[b].rec.series_id)])}

\* Lines 49-54: the series of one tumour, in the order of the table.
TumourSeries(rows, tumour) ==
    LET tumour_data == SelectSeq(rows, LAMBDA r : r.rec.name = tumour)
    IN  [k \in 1..Len(tumour_data) |->
            [index |-> tumour_data[k].index,
             series_id |-> tumour_data[k].rec.series_id,
             displacement |-> Sqrt(tumour_data[k].rec.xyz[1] * tumour_data[k].rec.xyz[1]
                                   + tumour_data[k].rec.xyz[2] * tumour_data[k].rec.xyz[2]
                                   + tumour_data[k].rec.xyz[3] * tumour_data[k].rec.xyz[3])]]

\* The whole script, up to the data it plots.
TumourDisplacementRun ==
    /\ script = "tumour_displacement"
    /\ pc = "run"
    /\ \E out \in OrderedTables(WithoutAverage(Indexed(df))) :
        /\ df_disp' = [kind |-> "ok", order |-> out.order, rows |-> out.rows]
        /\ results' = [k \in 1..Len(tumour_names) |-> TumourSeries(out.rows, tumour_names[k])]
    /\ pc' = "done"
    /\ UNCHANGED <<script, i, err, csv_files, df, reference_phase, tumour_name>>
    /\ UNCHANGED diceVars


\* The k-th CSV file of the folder.
CsvPath(k) == [kind |-> "path", file |-> k]

FilePath == CsvPath(1)

InitDisp ==
    /\ script \in {"process_structure_csv", "compute_displacement", "tumour_displacement"}
    /\ pc = "run"
    /\ i = 0
    /\ tumor_list = <<>>
    /\ fs = {}
    /\ seg1 = None
    /\ seg2 = None
    /\ path_seg1 = None
    /\ path_seg2 = None
    /\ dice = None
    /\ series1_data = {}
    /\ series2_data = {}
    /\ volume_df = {}
    /\ results = <<>>
    /\ err = None
    /\ csv_files = 1
    /\ df_disp = None
    /\ CASE script = "process_structure_csv" ->
                /\ df \in TablesOf(StatsRows)
                /\ reference_phase \in RefKeys
                /\ tumour_name = "middle_tumour"
         [] script = "compute_displacement" ->
                /\ df \in TablesOf(AxisRows)
                /\ reference_phase \in RefKeys
                /\ tumour_name = None
         [] script = "tumour_displacement" ->
                /\ df \in TablesOf(PositionRows)
                /\ reference_phase = None
                /\ tumour_name = None

\* One call of process_structure_csv; an exception reaches the caller.
ProcessStructureCsvCall ==
    /\ script = "process_structure_csv"
    /\ pc = "run"
    /\ \E out \in process_structure_csv(df, FilePath, tumour_name, reference_phase) :
        IF out.kind = "ok"
        THEN df_disp' = out /\ pc' = "done" /\ err' = None
        ELSE df_disp' = None /\ pc' = "raised" /\ err' = out
    /\ UNCHANGED <<script, i, results, csv_files, df, reference_phase, tumour_name>>
    /\ UNCHANGED diceVars

\* One call of compute_displacement; an exception reaches the caller.
ComputeDisplacementCall ==
    /\ script = "compute_displacement"
    /\ pc = "run"
    /\ \E out \in compute_displacement(df, reference_phase) :
        IF out.kind = "ok"
        THEN df_disp' = out /\ pc' = "done" /\ err' = None
        ELSE df_disp' = None /\ pc' = "raised" /\ err' = out
    /\ UNCHANGED <<script, i, results, csv_files, df, reference_phase, tumour_name>>
    /\ UNCHANGED diceVars

NextDisp ==
    \/ ProcessStructureCsvCall
    \/ ComputeDisplacementCall
    \/ TumourDisplacementRun

SpecDisp == InitDisp /\ [][NextDisp]_vars

\* The label a record has for the phase order: trimmed and in lower case.
Normalized(label) == lower(strip(label))

IsPhase(label) == label \in Range(PHASE_ORDER)

\* The z coordinate of an input record of either extractor.
ZOf(rec) == IF script = "compute_displacement" THEN rec.com ELSE rec.z

\* The phase labels of the output of the last call, in output order.
OutputLabels ==
    IF script = "tumour_displacement"
    THEN [k \in 1..Len(df_disp.rows) |->
             IF df_disp.rows[k].rec.series_id.kind = "phase"
             THEN df_disp.rows[k].rec.series_id.label
             ELSE <<>>]
    ELSE [k \in 1..Len(df_disp.rows) |-> df_disp.rows[k].label]

\* C4: when phase ordering is used, the displacement output is sorted by each
\* record's position in the canonical sequence, for every input row order;
\* it is never the lexical order of the labels nor the input order.
C4_PhaseOrderCanonical ==
    (script \in {"process_structure_csv", "compute_displacement", "tumour_displacement"}
        /\ pc = "done"
        /\ (script = "tumour_displacement" => df_disp.order = "phase"))
    => \A a, b \in 1..Len(OutputLabels) :
          (a < b /\ IsPhase(OutputLabels[a]) /\ IsPhase(OutputLabels[b]))
              => Position(PHASE_ORDER, OutputLabels[a]) <= Position(PHASE_ORDER, OutputLabels[b])

\* The output entries of the reference phase.
ReferenceEntries == SelectSeq(df_disp.rows, LAMBDA e : e.label = reference_phase)

\* C5: in 1-D (Z-only) displacement, every output entry's delta equals that
\* record's z minus the z of the reference record (the first record of the
\* reference phase in output order), whose own delta is exactly 0.
C5_DeltaRelativeToReference ==
    (script \in {"process_structure_csv", "compute_displacement"} /\ pc = "done")
    => /\ ReferenceEntries # <<>>
       /\ ReferenceEntries[1].z_displacement = 0
       /\ \A k \in 1..Len(df_disp.rows) :
             df_disp.rows[k].z_displacement
                 = ZOf(df[df_disp.rows[k].index]) - ZOf(df[ReferenceEntries[1].index])

\* C5 witness: the reference record and a record 2 mm above it.
C5_Witness ==
    /\ script \in {"process_structure_csv", "compute_displacement"}
    /\ pc = "done"
    /\ reference_phase = L_0in
    /\ Len(df_disp.rows) = 2
    /\ df_disp.rows[1].label = L_0in /\ df_disp.rows[1].z_displacement = 0
    /\ df_disp.rows[2].label = L_75in /\ df_disp.rows[2].z_displacement = 2

\* The reference key is not among the filtered records of the call.
ReferenceAbsent ==
    IF script = "compute_displacement"
    THEN ~\E k \in 1..Len(df) : df[k].axis = "z" /\ df[k].phase = reference_phase
    ELSE ~\E k \in 1..Len(df) :
            /\ df[k].name = tumour_name
            /\ IsPhase(Normalized(df[k].series_id))
            /\ Normalized(df[k].series_id) = reference_phase

ErrorNames(what) == \E k \in 1..Len(err.args) : err.args[k].arg = what

StringColumn == ~NumericColumn([k \in 1..Len(df) |-> df[k].series_id])

OrderingKeys ==
    LET rows == WithoutAverage(Indexed(df))
    IN  [k \in 1..Len(rows) |-> rows[k].rec.series_id]

\* C7 as claimed: when numeric ordering is asked for (the table holds numeric
\* series identifiers) and at least one record's ordering key is
\* non-numeric, the whole call fails with a parsing error.
C7_NonNumericKeyFails ==
    (script = "tumour_displacement" /\ pc # "run"
        /\ (\E k \in 1..Len(df) : is_numeric(df[k].series_id))
        /\ (\E k \in 1..Len(df) : ~is_numeric(df[k].series_id)))
    => pc = "raised"

\* C7 as amended: tumour_displacement.py takes no ordering request and never
\* fails on a non-numeric key.  If any series identifier left after the
\* 'average' rows are removed is non-numeric, it orders the whole table by
\* phase and keeps every record; only when all are numeric does it convert
\* them to numbers and sort ascending.
C7_OrderingPickedFromData ==
    (script = "tumour_displacement" /\ pc # "run")
    => /\ pc = "done"
       /\ Len(df_disp.rows) = Len(OrderingKeys)
       /\ IF \E k \in 1..Len(OrderingKeys) : ~is_numeric(OrderingKeys[k])
          THEN df_disp.order = "phase"
          ELSE /\ df_disp.order = "numeric"
               /\ \A a, b \in 1..Len(df_disp.rows) :
                     a < b => df_disp.rows[a].rec.series_id.val <= df_disp.rows[b].rec.series_id.val

\* C7 witness: a table with a numeric and a non-numeric key came out in phase
\* order with both records.
C7_Witness ==
    /\ script = "tumour_displacement"
    /\ pc = "done"
    /\ Len(df) = 2
    /\ is_numeric(df[1].series_id) /\ df[2].series_id = L_0in
    /\ df_disp.order = "phase"
    /\ Len(df_disp.rows) = 2

\* The input records of a structure that have a recognized phase.
RecognizedRecords(name) ==
    {k \in 1..Len(df) : df[k].name = name /\ IsPhase(Normalized(df[k].series_id))}

\* C8: under phase ordering, labels are trimmed and lowercased before being
\* matched against the canonical phase sequence, and the output contains
\* exactly one entry for each record of the requested structure with a
\* recognized phase, and no entry for any other record.
C8_UnrecognizedLabelsDropped ==
    /\ (script = "process_structure_csv" /\ pc = "done")
        => /\ {df_disp.rows[k].index : k \in 1..Len(df_disp.rows)} = RecognizedRecords(tumour_name)
           /\ Len(df_disp.rows) = Cardinality(RecognizedRecords(tumour_name))
           /\ \A k \in 1..Len(df_disp.rows) :
                 df_disp.rows[k].label = Normalized(df[df_disp.rows[k].index].series_id)
    /\ (script = "tumour_displacement" /\ pc = "done" /\ df_disp.order = "phase")
        => \A t \in 1..Len(tumour_names) :
              /\ {results[t][k].index : k \in 1..Len(results[t])} = RecognizedRecords(tumour_names[t])
              /\ Len(results[t]) = Cardinality(RecognizedRecords(tumour_names[t]))
              /\ \A k \in 1..Len(results[t]) :
                    /\ results[t][k].series_id.kind = "phase"
                    /\ results[t][k].series_id.label = Normalized(df[results[t][k].index].series_id)

\* C16: process_structure_csv normalizes and filters the record labels but
\* compares the reference key verbatim, so for every input table a
\* reference key that is not character for character one of the eight
\* canonical phase labels always raises the reference-not-found error, even
\* when a record's normalized label equals the normalized reference key.
C16_VerbatimKeyAlwaysNotFound ==
    (script = "process_structure_csv" /\ pc # "run"
        /\ reference_phase \notin Range(PHASE_ORDER))
    => /\ pc = "raised"
       /\ err.kind = "ValueError"
       /\ err.text = "Reference phase not found"

----------------------------------------------------------------------------
(* The folder loops process_folder and process_displacement_folder.  The    *)
(* table of a file is met when the loop reads it; results is what the loop  *)
(* printed, one line per file.                                              *)

MaxCsvFiles == 2       \* glob finds 0..MaxCsvFiles CSV files

\* The tables of the folder loops: no record or one record.
SmallTables(Rows) == {<<>>} \cup {<<r>> : r \in Rows}

InitDispFolder ==
    /\ script \in {"process_folder", "process_displacement_folder"}
    /\ pc = "run"
    /\ i = 0
    /\ tumor_list = <<>>
    /\ fs = {}
    /\ seg1 = None
    /\ seg2 = None
    /\ path_seg1 = None
    /\ path_seg2 = None
    /\ dice = None
    /\ series1_data = {}
    /\ series2_data = {}
    /\ volume_df = {}
    /\ results = <<>>
    /\ err = None
    /\ csv_files \in 0..MaxCsvFiles
    /\ df = <<>>
    /\ df_disp = None
    /\ reference_phase \in RefKeys
    /\ tumour_name = IF script = "process_folder" THEN "middle_tumour" ELSE None

\* A slip that prints the exception of a file and lets it end the loop.
ProcessFolderIterationFailFast ==
    /\ script = "process_folder"
    /\ pc = "run"
    /\ i < csv_files
    /\ \E table \in SmallTables(StatsRows) :
       \E out \in process_structure_csv(table, CsvPath(i + 1), tumour_name, reference_phase) :
        /\ df' = table
        /\ IF out.kind = "ok"
           THEN /\ df_disp' = out
                /\ results' = Append(results, [file |-> i + 1, kind |-> "Processed"])
                /\ i' = i + 1
                /\ UNCHANGED <<pc, err>>
           ELSE /\ pc' = "raised"
                /\ err' = out
                /\ results' = Append(results, [file |-> i + 1, kind |-> "Error processing", exc |-> out])
                /\ UNCHANGED <<df_disp, i>>
    /\ UNCHANGED <<script, csv_files, reference_phase, tumour_name>>
    /\ UNCHANGED diceVars

\* One iteration of the loop of process_folder: any exception of the file is
\* caught and printed.
ProcessFolderIteration ==
    /\ script = "process_folder"
    /\ pc = "run"
    /\ i < csv_files
    /\ \E table \in SmallTables(StatsRows) :
       \E out \in process_structure_csv(table, CsvPath(i + 1), tumour_name, reference_phase) :
        /\ df' = table
        /\ IF out.kind = "ok"
           THEN /\ df_disp' = out
                /\ results' = Append(results, [file |-> i + 1, kind |-> "Processed"])
           ELSE /\ UNCHANGED df_disp
                /\ results' = Append(results, [file |-> i + 1, kind |-> "Error processing", exc |-> out])
    /\ i' = i + 1
    /\ UNCHANGED <<script, pc, err, csv_files, reference_phase, tumour_name>>
    /\ UNCHANGED diceVars

\* One iteration of the loop of process_displacement_folder.
ProcessDisplacementFolderIteration ==
    /\ script = "process_displacement_folder"
    /\ pc = "run"
    /\ i < csv_files
    /\ \E table \in SmallTables(AxisRows) :
       \E out \in compute_displacement(table, reference_phase) :
        /\ df' = table
        /\ IF out.kind = "ok"
           THEN /\ df_disp' = out
                /\ results' = Append(results, [file |-> i + 1, kind |-> "Processed"])
           ELSE /\ UNCHANGED df_disp
                /\ results' = Append(results, [file |-> i + 1, kind |-> "Error processing", exc |-> out])
    /\ i' = i + 1
    /\ UNCHANGED <<script, pc, err, csv_files, reference_phase, tumour_name>>
    /\ UNCHANGED diceVars

\* The loop is over: the entry point returns.
FolderReturn ==
    /\ script \in {"process_folder", "process_displacement_folder"}
    /\ pc = "run"
    /\ i = csv_files
    /\ pc' = "done"
    /\ UNCHANGED <<script, i, results, err>>
    /\ UNCHANGED diceVars
    /\ UNCHANGED dispVars

NextDispFolder ==
    \/ ProcessFolderIteration
    \/ ProcessDisplacementFolderIteration
    \/ FolderReturn

SpecDispFolder == InitDispFolder /\ [][NextDispFolder]_vars

IsReferenceError(line) ==
    line.kind = "Error processing" /\ line.exc.text = "Reference phase not found"

\* C9 as claimed: a reference key that is absent from the data fails the
\* invocation as a whole: after a 'reference not found' error the batch
\* entry points do not go on to process any remaining input table.
C9_MissingReferenceEndsBatch ==
    script \in {"process_folder", "process_displacement_folder"}
    => \A k \in 1..Len(results) : IsReferenceError(results[k]) => Len(results) = k

\* C9 as amended: a reference key that is absent from a table fails only
\* that table: process_folder and process_displacement_folder catch the
\* 'reference not found' error, print it with the file, and go on to process
\* every remaining input table.
C9_BatchGoesOnAfterMissingReference ==
    (script \in {"process_folder", "process_displacement_folder"}
        /\ \E k \in 1..Len(results) : IsReferenceError(results[k]))
    => /\ pc # "raised"
       /\ Len(results) = i
       /\ \A k \in 1..Len(results) : results[k].file = k
       /\ pc = "done" => Len(results) = csv_files

\* C9 witness: the first table had no reference record, the second one was
\* processed, and the entry point returned.
C9_Witness ==
    /\ script \in {"process_folder", "process_displacement_folder"}
    /\ pc = "done"
    /\ Len(results) = 2
    /\ IsReferenceError(results[1])
    /\ results[2].kind = "Processed"

====
